---- MODULE Spec2Model ----
(***************************************************************************)
(* Model of the dotgraph dependency-graph scheduler (package pipeline):    *)
(* the generic Graph[T] builder operations and the concurrent Execute /    *)
(* executeStage algorithm, one goroutine per launched stage invocation.    *)
(***************************************************************************)
EXTENDS Integers, Sequences, FiniteSets, TLC

(***************************************************************************)
(* Bounds of the model.                                                    *)
(***************************************************************************)
\* number of stages of a graph that are registered with a platform scope or
\* with chained builder calls (Optional / Requires / Unless)
MaxDecorated == 2

(***************************************************************************)
(* Values.                                                                 *)
(***************************************************************************)
\* the nil error / nil pointer
Nil == [stage |-> "", kind |-> "nil", cause |-> ""]

\* the value of an unlocked sync.Mutex (no goroutine holds it)
NoTask == << 0 >>

\* runtime.GOOS of the machine the graph is built and run on
GOOS == "linux"

\* the error a failing user handler returns
HandlerErr == "boom"

\* stage.run of a stage registered with a caller-supplied handler, and of the
\* no-op handler AddMerge installs
UserRun == "handler"
NoopRun == "noop"

(***************************************************************************)
(* Conditions (conditions.go): a Condition is a function of the request;   *)
(* it is represented by its constructor and evaluated by Eval.             *)
(***************************************************************************)
LookPath(req, cmd) == cmd \in req.Services.Executor

CommandExists(cmd) == [op |-> "CommandExists", arg |-> cmd]
IsMac == [op |-> "IsMac", arg |-> ""]
IsLinux == [op |-> "IsLinux", arg |-> ""]

Eval(cond, req) ==
    CASE cond.op = "CommandExists" -> LookPath(req, cond.arg)
      [] cond.op = "IsMac" -> req.Env.OS = "darwin"
      [] cond.op = "IsLinux" -> req.Env.OS = "linux"

(***************************************************************************)
(* Builder operations.  A graph value is the map g.stages from names to    *)
(* stage pointers, the heap of GraphStage objects the pointers refer to    *)
(* (a pointer is an index into the heap), and g.platform.                  *)
(***************************************************************************)
\* generic tells the two Graph types apart: Graph[T], whose Execute takes a
\* Request[T], and the Graph whose Execute takes a context only
NewGraph ==
    [stages |-> << >>, heap |-> << >>, platform |-> GOOS, generic |-> TRUE]

\* the pointer the next allocated GraphStage gets
NewPtr(g) == Len(g.heap) + 1

\* AddStage keeping the stage a name is already registered for
AddStage_keepFirst(g, name, run) ==
    [g EXCEPT
       !.heap = Append(@, [name |-> name, run |-> run, dependencies |-> << >>,
                           platform |-> "", requires |-> << >>,
                           unless |-> << >>, optional |-> FALSE]),
       !.stages = @ @@ (name :> NewPtr(g))]

AddStage(g, name, run) ==
    [g EXCEPT
       !.heap = Append(@, [name |-> name, run |-> run, dependencies |-> << >>,
                           platform |-> "", requires |-> << >>,
                           unless |-> << >>, optional |-> FALSE]),
       !.stages = (name :> NewPtr(g)) @@ @]

AddMerge(g, name, stages) ==
    [g EXCEPT
       !.heap = Append(@, [name |-> name, run |-> NoopRun,
                           dependencies |-> stages,
                           platform |-> "", requires |-> << >>,
                           unless |-> << >>, optional |-> FALSE]),
       !.stages = (name :> NewPtr(g)) @@ @]

\* MergeBuilder.AddStage without the dependency on the merge stage
MergeBuilder_AddStage_loose(g, mergeStage, name, run) ==
    AddStage(g, name, run)

MergeBuilder_AddStage(g, mergeStage, name, run) ==
    LET g1 == AddStage(g, name, run)
    IN  [g1 EXCEPT !.heap[NewPtr(g)].dependencies = Append(@, mergeStage)]

PlatformBuilder_AddStage(g, platform, name, run) ==
    LET g1 == AddStage(g, name, run)
    IN  [g1 EXCEPT !.heap[NewPtr(g)].platform = platform]

After(g, s, stages) == [g EXCEPT !.heap[s].dependencies = @ \o stages]

Requires(g, s, cmd) == [g EXCEPT !.heap[s].requires = Append(@, cmd)]

Unless(g, s, condition) == [g EXCEPT !.heap[s].unless = Append(@, condition)]

Optional(g, s) == [g EXCEPT !.heap[s].optional = TRUE]

(***************************************************************************)
(* Scheduler state.                                                        *)
(***************************************************************************)
VARIABLES
    g,          \* the Graph: stages (name -> pointer), heap of GraphStage, platform
    req,        \* the Request handed to Execute
    executed,   \* GraphStage.executed, per stage pointer
    mu,         \* GraphStage.mu, per stage pointer: the goroutine holding it
    exec,       \* the frame of Execute: pc, wg, errChan, returned error
    tasks,      \* the goroutines running executeStage, keyed by launch path
    invoked,    \* history: number of invocations of stage.run, per pointer
    failed,     \* history: errors raised by executeStage for its own stage
    errored,    \* history: stages whose handler returned an error
    written,    \* history: number of writes of GraphStage.executed, per pointer
    runs,       \* number of calls of Execute on the graph so far
    built,      \* number of builder calls made after Execute returned
    checks,     \* history: the gate checks executeStage made, per pointer
    condCall,   \* package pipeline: the last call of a combined Condition
    pm,         \* package pkg: the machine, and the last call of a Manager
    ex          \* package exec: clock, log directory, results of Run

vars ==
    << g, req, executed, mu, exec, tasks, invoked, failed, errored, written,
       runs, built, checks, condCall, pm, ex >>

Ptrs == 1 .. Len(g.heap)

\* the stage a goroutine runs executeStage for: the last pointer of its path
StageOf(t) == t[Len(t)]

\* the goroutine (or Execute, << >>) that launched goroutine t
Parent(t) == SubSeq(t, 1, Len(t) - 1)

\* every GraphStage made for the graph, in g.stages or not
Registered_all(gr) == 1 .. Len(gr.heap)

\* the pointers g.stages maps some name to (range g.stages)
Registered(gr) == { gr.stages[n] : n \in DOMAIN gr.stages }

\* Execute taking every stage of g.stages for a root
Roots_all(gr) == Registered(gr)

\* Execute, lines 96-102: the stages of g.stages with no dependencies
Roots(gr) == { p \in Registered(gr) : Len(gr.heap[p].dependencies) = 0 }

\* the inner loop of findDependents going on after a match
appended_nobreak(gr, stage, s) ==
    Cardinality({ i \in DOMAIN gr.heap[s].dependencies :
                    gr.heap[s].dependencies[i] = stage })

\* lines 230-235: how many times findDependents appends s to dependents;
\* the inner loop breaks at the first dependency of s that is stage
appended(gr, stage, s) ==
    IF \E i \in DOMAIN gr.heap[s].dependencies :
          gr.heap[s].dependencies[i] = stage
      THEN 1 ELSE 0

\* findDependents looking only at the first dependency of each stage
findDependents_firstOnly(gr, stage) ==
    { p \in Registered(gr) :
        /\ gr.heap[p].dependencies # << >>
        /\ gr.heap[p].dependencies[1] = stage }

findDependents(gr, stage) ==
    { p \in Registered(gr) : appended(gr, stage, p) > 0 }

\* allDependenciesMet answering true at the first executed dependency
allDependenciesMet_any(stage, j, flag) ==
    IF flag THEN "true"
    ELSE IF j = Len(stage.dependencies) THEN "false"
    ELSE "next"

\* one iteration of the loop of allDependenciesMet over stage.dependencies:
\* dependency number j was read as flag; "false" and "true" are the function's
\* results, "next" continues with dependency j + 1
allDependenciesMet(stage, j, flag) ==
    IF ~flag THEN "false"
    ELSE IF j = Len(stage.dependencies) THEN "true"
    ELSE "next"

\* Gates with a missing required command always skipping the stage
Gates_lenient(stage, gr, rq) ==
    LET missing == { i \in DOMAIN stage.requires :
                        ~LookPath(rq, stage.requires[i]) }
        first == CHOOSE i \in missing : \A k \in missing : i <= k
    IN  IF stage.platform # "" /\ stage.platform # gr.platform
          THEN [out |-> "platform", cmd |-> ""]
        ELSE IF \E i \in DOMAIN stage.unless : Eval(stage.unless[i], rq)
          THEN [out |-> "unless", cmd |-> ""]
        ELSE IF missing # {}
          THEN [out |-> "skip", cmd |-> stage.requires[first]]
        ELSE [out |-> "run", cmd |-> ""]

\* Gates without the platform check
Gates_anyPlatform(stage, gr, rq) ==
    LET missing == { i \in DOMAIN stage.requires :
                        ~LookPath(rq, stage.requires[i]) }
        first == CHOOSE i \in missing : \A k \in missing : i <= k
    IN  IF \E i \in DOMAIN stage.unless : Eval(stage.unless[i], rq)
          THEN [out |-> "unless", cmd |-> ""]
        ELSE IF missing # {}
          THEN [out |-> IF stage.optional THEN "skip" ELSE "missing",
                cmd |-> stage.requires[first]]
        ELSE [out |-> "run", cmd |-> ""]

\* Gates skipping only when every unless condition is true
Gates_allUnless(stage, gr, rq) ==
    LET missing == { i \in DOMAIN stage.requires :
                        ~LookPath(rq, stage.requires[i]) }
        first == CHOOSE i \in missing : \A k \in missing : i <= k
    IN  IF stage.platform # "" /\ stage.platform # gr.platform
          THEN [out |-> "platform", cmd |-> ""]
        ELSE IF /\ stage.unless # << >>
                /\ \A i \in DOMAIN stage.unless : Eval(stage.unless[i], rq)
          THEN [out |-> "unless", cmd |-> ""]
        ELSE IF missing # {}
          THEN [out |-> IF stage.optional THEN "skip" ELSE "missing",
                cmd |-> stage.requires[first]]
        ELSE [out |-> "run", cmd |-> ""]

\* executeStage, lines 141-177: the checks between the executed guard and the
\* handler.  "platform", "unless" and "skip" mark the stage executed and
\* return nil, "missing" returns the requirement error, "run" calls stage.run
Gates(stage, gr, rq) ==
    LET missing == { i \in DOMAIN stage.requires :
                        ~LookPath(rq, stage.requires[i]) }
        first == CHOOSE i \in missing : \A k \in missing : i <= k
    IN  IF stage.platform # "" /\ stage.platform # gr.platform
          THEN [out |-> "platform", cmd |-> ""]
        ELSE IF \E i \in DOMAIN stage.unless : Eval(stage.unless[i], rq)
          THEN [out |-> "unless", cmd |-> ""]
        ELSE IF missing # {}
          THEN [out |-> IF stage.optional THEN "skip" ELSE "missing",
                cmd |-> stage.requires[first]]
        ELSE [out |-> "run", cmd |-> ""]

\* executeStage of the Graph without type parameter, lines 139-170 of its
\* file: a stage with a required command that CommandExists(cmd)(ctx) does
\* not find is marked executed and returns nil, optional or not
Context_Gates(stage, gr, rq) ==
    LET missing == { i \in DOMAIN stage.requires :
                        ~Eval(CommandExists(stage.requires[i]), rq) }
        first == CHOOSE i \in missing : \A k \in missing : i <= k
    IN  IF stage.platform # "" /\ stage.platform # gr.platform
          THEN [out |-> "platform", cmd |-> ""]
        ELSE IF \E i \in DOMAIN stage.unless : Eval(stage.unless[i], rq)
          THEN [out |-> "unless", cmd |-> ""]
        ELSE IF missing # {}
          THEN [out |-> "skip", cmd |-> stage.requires[first]]
        ELSE [out |-> "run", cmd |-> ""]

\* the assignment to executed taking the dependencies of the stage with it
WriteExecuted_clearing(gr, p) == [gr EXCEPT !.heap[p].dependencies = << >>]

\* stage.executed = true (lines 145, 155, 168, 189) as a write to the
\* GraphStage object: the field executed is kept apart from the heap, of
\* which the assignment touches nothing
WriteExecuted(gr, p) == gr

\* the executed guard letting every invocation through
AlreadyExecuted_never(flag) == FALSE

\* lines 135-138: if stage.executed { stage.mu.Unlock(); return nil }
AlreadyExecuted(flag) == flag

\* stage.mu.Unlock() leaving the mutex held
Unlock_held(m, p) == m

\* stage.mu.Unlock(), dep.mu.Unlock()
Unlock(m, p) == [m EXCEPT ![p] = NoTask]

\* the least element of a non-empty set of indices
First(S) == CHOOSE i \in S : \A k \in S : i <= k

\* the checks of lines 141-174 with the command lookups made first
GateChecks_requiresFirst(stage, gr, rq) ==
    { [gate |-> "platform", i |-> 0] }
      \cup { [gate |-> "unless", i |-> i] : i \in DOMAIN stage.unless }
      \cup { [gate |-> "requires", i |-> i] : i \in DOMAIN stage.requires }

\* executeStage, lines 141-174: the checks it makes before it returns or
\* calls stage.run: the platform comparison, the unless conditions it
\* evaluates (up to the first true one) and the commands it looks up (up to
\* the first missing one)
GateChecks(stage, gr, rq) ==
    LET met == { i \in DOMAIN stage.unless : Eval(stage.unless[i], rq) }
        missing == { i \in DOMAIN stage.requires :
                        ~LookPath(rq, stage.requires[i]) }
        conditions == IF met = {} THEN DOMAIN stage.unless
                      ELSE 1 .. First(met)
        lookups == IF missing = {} THEN DOMAIN stage.requires
                   ELSE 1 .. First(missing)
    IN  { [gate |-> "platform", i |-> 0] }
          \cup IF stage.platform # "" /\ stage.platform # gr.platform
                 THEN {}
               ELSE { [gate |-> "unless", i |-> i] : i \in conditions }
                      \cup IF met # {} THEN {}
                           ELSE { [gate |-> "requires", i |-> i] :
                                    i \in lookups }

\* the errors executeStage builds with fmt.Errorf (lines 172 and 182)
RequiresError(stage, cmd) ==
    [stage |-> stage.name, kind |-> "requires", cause |-> cmd]

\* the error of a failed handler passed on without the stage's name
FailedError_anon(stage, err) == [stage |-> "", kind |-> "failed", cause |-> err]

FailedError(stage, err) ==
    [stage |-> stage.name, kind |-> "failed", cause |-> err]

\* what stage.run can return: the no-op handler of a merge returns nil, a
\* caller-supplied handler returns nil or an error
RunResults(stage) ==
    IF stage.run = NoopRun THEN { "" } ELSE { "", HandlerErr }

\* an error of stage.run returned whether or not the stage is optional
RunOutcome_strict(stage, err) ==
    IF err # "" THEN "return" ELSE "on"

\* lines 178-186: what executeStage does with the result err of stage.run:
\* "return" the wrapped error, or go "on" to mark the stage executed
RunOutcome(stage, err) ==
    IF err # "" /\ ~stage.optional THEN "return" ELSE "on"

\* wg.Wait() not waiting for the last goroutine
WaitReturns_early(wg) == wg <= 1

\* wg.Wait() (lines 118 and 213) returns when the counter is zero
WaitReturns(wg) == wg = 0

\* the range loop over errChan returning the last error it reads
FirstError_last(errChan) ==
    IF Len(errChan) > 0 THEN errChan[Len(errChan)] ELSE Nil

\* the range loop over errChan never finding an error
FirstError_none(errChan) == Nil

\* for err := range errChan { if err != nil { return err } } ; return nil
FirstError(errChan) == IF Len(errChan) > 0 THEN Head(errChan) ELSE Nil

NewTask ==
    [pc |-> "start", todo |-> {}, cur |-> 0, j |-> 0, wg |-> 0,
     errChan |-> << >>, ret |-> Nil]

(***************************************************************************)
(* The graphs Execute is run on: a shape built with the builder            *)
(* operations, in which at most MaxDecorated stages are registered with a  *)
(* platform scope or further builder calls.                                *)
(***************************************************************************)
\* the commands the Executor of the request resolves; "make" is absent
Path == { "git" }

\* a builder call on a stage
OptionalCall == [op |-> "Optional", cmd |-> "", cond |-> IsMac]
RequiresCall(cmd) == [op |-> "Requires", cmd |-> cmd, cond |-> IsMac]
UnlessCall(cond) == [op |-> "Unless", cmd |-> "", cond |-> cond]

Call(gr, s, c) ==
    CASE c.op = "Optional" -> Optional(gr, s)
      [] c.op = "Requires" -> Requires(gr, s, c.cmd)
      [] c.op = "Unless" -> Unless(gr, s, c.cond)

RECURSIVE CallAll(_, _, _)
CallAll(gr, s, calls) ==
    IF calls = << >> THEN gr
    ELSE CallAll(Call(gr, s, Head(calls)), s, Tail(calls))

\* how a stage is registered: the platform scope ("" for Graph.AddStage) and
\* the builder calls chained on the returned stage
Plain == [platform |-> "", calls |-> << >>]

Profiles ==
    { [platform |-> "", calls |-> << OptionalCall >>],
      [platform |-> "", calls |-> << RequiresCall("make") >>],
      [platform |-> "", calls |-> << RequiresCall("make"), OptionalCall >>],
      [platform |-> "", calls |-> << UnlessCall(IsLinux) >>],
      [platform |-> "", calls |-> << UnlessCall(IsMac), UnlessCall(IsLinux) >>],
      [platform |-> "",
       calls |-> << UnlessCall(CommandExists("git")), UnlessCall(IsMac),
                    RequiresCall("make") >>],
      [platform |-> "darwin", calls |-> << >>],
      [platform |-> "darwin",
       calls |-> << UnlessCall(IsLinux), RequiresCall("make") >>],
      [platform |-> "linux",
       calls |-> << UnlessCall(IsMac), RequiresCall("git") >>] }

\* registration through Graph.AddStage or through a PlatformBuilder, then the
\* chained calls
Register(gr, d, name) ==
    CallAll(IF d.platform = "" THEN AddStage(gr, name, UserRun)
            ELSE PlatformBuilder_AddStage(gr, d.platform, name, UserRun),
            NewPtr(gr), d.calls)

\* A -> {B, C} -> D
Diamond(d) ==
    LET g1 == Register(NewGraph, d[1], "A")
        g2 == After(Register(g1, d[2], "B"), 2, << 1 >>)
        g3 == After(Register(g2, d[3], "C"), 3, << 1 >>)
    IN  After(Register(g3, d[4], "D"), 4, << 2, 3 >>)

\* fetch -> build -> test
Chain(d) ==
    LET g1 == Register(NewGraph, d[1], "fetch")
        g2 == After(Register(g1, d[2], "build"), 2, << 1 >>)
    IN  After(Register(g2, d[3], "test"), 3, << 2 >>)

\* M = AddMerge("wait", A, B), C registered through M: the merge stage is
\* private to the MergeBuilder, and C cannot have a platform scope
Merge(d) ==
    LET g1 == Register(NewGraph, d[1], "A")
        g2 == Register(g1, d[2], "B")
        g3 == AddMerge(g2, "wait", << 1, 2 >>)
    IN  CallAll(MergeBuilder_AddStage(g3, 3, "C", UserRun), 4, d[4].calls)

Decorations(n) ==
    { d \in [1 .. n -> Profiles \cup { Plain }] :
        Cardinality({ i \in 1 .. n : d[i] # Plain }) <= MaxDecorated }

Graphs ==
    { Diamond(d) : d \in Decorations(4) }
      \cup { Chain(d) : d \in Decorations(3) }
      \cup { Merge(d) : d \in { e \in Decorations(4) :
                                  e[3] = Plain /\ e[4].platform = "" } }

\* A <-> B -> C: every stage has a dependency
Ring(d) ==
    LET g1 == Register(NewGraph, d[1], "A")
        g2 == After(Register(g1, d[2], "B"), 2, << 1 >>)
        g3 == After(g2, 1, << 2 >>)
    IN  After(Register(g3, d[3], "C"), 3, << 2 >>)

\* R -> X and R -> A <-> B -> Y: a cycle fed by a root, next to other stages
Tangle(d) ==
    LET g1 == Register(NewGraph, d[1], "R")
        g2 == After(Register(g1, d[2], "X"), 2, << 1 >>)
        g3 == After(Register(g2, d[3], "A"), 3, << 1 >>)
        g4 == After(Register(g3, d[4], "B"), 4, << 3 >>)
        g5 == After(g4, 3, << 4 >>)
    IN  After(Register(g5, d[5], "Y"), 5, << 4 >>)

CyclicGraphs ==
    { Ring(d) : d \in Decorations(3) } \cup { Tangle(d) : d \in Decorations(5) }

\* the state of packages pkg and exec while the scheduler is observed
NoCall == [os |-> GOOS]
NoExecutor == [now |-> 0]
NoCondition == [op |-> ""]

\* a graph of the family has been built and Execute has not been called
Unrun(family) ==
    /\ g \in family
    /\ req = [Env |-> [OS |-> GOOS], Services |-> [Executor |-> Path]]
    /\ executed = [p \in Ptrs |-> FALSE]
    /\ mu = [p \in Ptrs |-> NoTask]
    /\ exec = [pc |-> "idle", wg |-> 0, errChan |-> << >>, ret |-> Nil]
    /\ tasks = << >>
    /\ invoked = [p \in Ptrs |-> 0]
    /\ failed = {}
    /\ errored = {}
    /\ written = [p \in Ptrs |-> 0]
    /\ runs = 0
    /\ built = 0
    /\ checks = [p \in Ptrs |-> {}]

InitOn(family) ==
    Unrun(family) /\ condCall = NoCondition /\ pm = NoCall /\ ex = NoExecutor

Init == InitOn(Graphs)

(***************************************************************************)
(* Execute.                                                                *)
(***************************************************************************)
\* lines 93-116: find the roots and launch one goroutine per root
Execute ==
    /\ exec.pc = "idle"
    /\ exec' = [exec EXCEPT !.pc = "wait", !.wg = Cardinality(Roots(g))]
    /\ tasks' = [t \in { << r >> : r \in Roots(g) } |-> NewTask]
    /\ runs' = runs + 1
    /\ UNCHANGED << g, req, written, built, checks, condCall, pm, ex,
                    executed, mu, invoked, failed, errored >>

\* lines 118-129: wg.Wait(), close(errChan), return the first error
ExecuteReturn ==
    /\ exec.pc = "wait"
    /\ WaitReturns(exec.wg)
    /\ exec' = [exec EXCEPT !.pc = "done", !.ret = FirstError(exec.errChan)]
    /\ UNCHANGED << g, req, written, runs, built, checks, condCall, pm, ex,
                    executed, mu, tasks, invoked, failed, errored >>

(***************************************************************************)
(* executeStage, one action per step of goroutine t.  A step that ends     *)
(* the function includes the goroutine wrapper that called it (lines       *)
(* 110-115 and 205-210): a non-nil error is sent on the launcher's         *)
(* errChan, then the deferred wg.Done() runs.                              *)
(***************************************************************************)
\* an error channel made without a buffer
ChanCap_unbuffered(n) == 0

\* make(chan error, n), lines 106 and 196: the capacity of the channel
ChanCap(n) == n

\* errChan <- err (lines 113 and 208) in the wrapper of goroutine t: nothing
\* is sent for nil, and the send blocks while the launcher's channel is full
CanSend(t, err) ==
    \/ err = Nil
    \/ IF Len(t) = 1
         THEN Len(exec.errChan) < ChanCap(Cardinality(DOMAIN g.stages))
         ELSE Len(tasks[Parent(t)].errChan)
                < ChanCap(Cardinality(findDependents(g, StageOf(Parent(t)))))

\* tasks after goroutine t returned err to its wrapper
Returned(t, err) ==
    IF Len(t) = 1
      THEN [tasks EXCEPT ![t].pc = "done", ![t].ret = err]
      ELSE [tasks EXCEPT
              ![t].pc = "done", ![t].ret = err,
              ![Parent(t)].errChan = IF err # Nil THEN Append(@, err) ELSE @,
              ![Parent(t)].wg = @ - 1]

\* the frame of Execute after goroutine t returned err to its wrapper
ReturnedTo(t, err) ==
    IF Len(t) = 1
      THEN [exec EXCEPT !.errChan = IF err # Nil THEN Append(@, err) ELSE @,
                        !.wg = @ - 1]
      ELSE exec

\* the next dependent of the range loop at line 198 (the order of dependents
\* is the iteration order of the map g.stages, which Go leaves unspecified):
\* the states of goroutine t continuing the loop over todo
Continue(t, todo) ==
    IF todo = {}
      THEN { [tasks[t] EXCEPT !.pc = "wait", !.todo = {}, !.cur = 0, !.j = 0] }
      ELSE { [tasks[t] EXCEPT !.pc = "met", !.todo = todo \ { dep },
                              !.cur = dep, !.j = 1] : dep \in todo }

\* line 134: stage.mu.Lock()
LockGuard(t) ==
    /\ tasks[t].pc = "start"
    /\ mu[StageOf(t)] = NoTask
    /\ mu' = [mu EXCEPT ![StageOf(t)] = t]
    /\ tasks' = [tasks EXCEPT ![t].pc = "guard"]
    /\ UNCHANGED << g, req, written, runs, built, checks, condCall, pm, ex,
                    executed, exec, invoked, failed, errored >>

\* lines 135-178: the executed guard and Unlock, then the platform, unless
\* and requires checks, up to the call of stage.run
GuardAs(t, generic) ==
    LET s == g.heap[StageOf(t)]
        r == IF generic THEN Gates(s, g, req) ELSE Context_Gates(s, g, req)
    IN  /\ tasks[t].pc = "guard"
        /\ mu' = Unlock(mu, StageOf(t))
        /\ IF AlreadyExecuted(executed[StageOf(t)])
             THEN /\ tasks' = Returned(t, Nil)
                  /\ exec' = ReturnedTo(t, Nil)
                  /\ UNCHANGED << invoked, failed, checks >>
             ELSE /\ checks' = [checks EXCEPT
                                  ![StageOf(t)] = @ \cup GateChecks(s, g, req)]
                  /\ CASE r.out = "run" ->
                         /\ tasks' = [tasks EXCEPT ![t].pc = "run"]
                         /\ invoked' = [invoked EXCEPT
                                          ![StageOf(t)] = @ + 1]
                         /\ UNCHANGED << exec, failed >>
                       [] r.out = "missing" ->
                         /\ CanSend(t, RequiresError(s, r.cmd))
                         /\ tasks' = Returned(t, RequiresError(s, r.cmd))
                         /\ exec' = ReturnedTo(t, RequiresError(s, r.cmd))
                         /\ failed' = failed \cup
                              { [stage |-> StageOf(t),
                                 err |-> RequiresError(s, r.cmd)] }
                         /\ UNCHANGED invoked
                       [] OTHER ->
                         /\ tasks' = [tasks EXCEPT ![t].pc = "skip"]
                         /\ UNCHANGED << exec, invoked, failed >>
        /\ UNCHANGED << g, req, written, runs, built, condCall, pm, ex,
                        executed, errored >>

\* the step of the executeStage of the graph's own type
Guard(t) == GuardAs(t, g.generic)

\* lines 144, 154, 167: stage.mu.Lock() of a skipped stage
LockSkip(t) ==
    /\ tasks[t].pc = "skip"
    /\ mu[StageOf(t)] = NoTask
    /\ mu' = [mu EXCEPT ![StageOf(t)] = t]
    /\ tasks' = [tasks EXCEPT ![t].pc = "skipset"]
    /\ UNCHANGED << g, req, written, runs, built, checks, condCall, pm, ex,
                    executed, exec, invoked, failed, errored >>

\* lines 145-147, 155-157, 168-170: executed = true, Unlock, return nil
Skip(t) ==
    /\ tasks[t].pc = "skipset"
    /\ executed' = [executed EXCEPT ![StageOf(t)] = TRUE]
    /\ g' = WriteExecuted(g, StageOf(t))
    /\ written' = [written EXCEPT ![StageOf(t)] = @ + 1]
    /\ mu' = Unlock(mu, StageOf(t))
    /\ tasks' = Returned(t, Nil)
    /\ exec' = ReturnedTo(t, Nil)
    /\ UNCHANGED << req, runs, built, checks, condCall, pm, ex, invoked,
                    failed, errored >>

\* lines 178-186: stage.run returns
Run(t) ==
    LET s == g.heap[StageOf(t)]
    IN  /\ tasks[t].pc = "run"
        /\ \E err \in RunResults(s) :
             /\ IF RunOutcome(s, err) = "return"
                  THEN /\ CanSend(t, FailedError(s, err))
                       /\ tasks' = Returned(t, FailedError(s, err))
                       /\ exec' = ReturnedTo(t, FailedError(s, err))
                       /\ failed' = failed \cup
                            { [stage |-> StageOf(t),
                               err |-> FailedError(s, err)] }
                  ELSE /\ tasks' = [tasks EXCEPT ![t].pc = "ran"]
                       /\ UNCHANGED << exec, failed >>
             /\ errored' = IF err # "" THEN errored \cup { StageOf(t) }
                           ELSE errored
        /\ UNCHANGED << g, req, written, runs, built, checks, condCall, pm,
                        ex, executed, mu, invoked >>

\* line 188: stage.mu.Lock()
LockExecuted(t) ==
    /\ tasks[t].pc = "ran"
    /\ mu[StageOf(t)] = NoTask
    /\ mu' = [mu EXCEPT ![StageOf(t)] = t]
    /\ tasks' = [tasks EXCEPT ![t].pc = "set"]
    /\ UNCHANGED << g, req, written, runs, built, checks, condCall, pm, ex,
                    executed, exec, invoked, failed, errored >>

\* lines 189-198: executed = true, Unlock, findDependents; return nil when
\* there are no dependents, else enter the loop over them
SetExecuted(t) ==
    LET dependents == findDependents(g, StageOf(t))
    IN  /\ tasks[t].pc = "set"
        /\ executed' = [executed EXCEPT ![StageOf(t)] = TRUE]
        /\ g' = WriteExecuted(g, StageOf(t))
        /\ written' = [written EXCEPT ![StageOf(t)] = @ + 1]
        /\ mu' = Unlock(mu, StageOf(t))
        /\ IF dependents = {}
             THEN /\ tasks' = Returned(t, Nil)
                  /\ exec' = ReturnedTo(t, Nil)
             ELSE /\ \E n \in Continue(t, dependents) :
                       tasks' = [tasks EXCEPT ![t] = n]
                  /\ exec' = exec
        /\ UNCHANGED << req, runs, built, checks, condCall, pm, ex,
                        invoked, failed, errored >>

\* line 243: dep.mu.Lock() in allDependenciesMet
LockDependency(t) ==
    LET dep == g.heap[tasks[t].cur].dependencies[tasks[t].j]
    IN  /\ tasks[t].pc = "met"
        /\ mu[dep] = NoTask
        /\ mu' = [mu EXCEPT ![dep] = t]
        /\ tasks' = [tasks EXCEPT ![t].pc = "metread"]
        /\ UNCHANGED << g, req, written, runs, built, checks, condCall, pm,
                        ex, executed, exec, invoked, failed, errored >>

\* lines 244-249 and 198-211: read dep.executed, Unlock; when
\* allDependenciesMet returns true, launch the goroutine of the dependent;
\* when it returned, go on with the next dependent
ReadDependency(t) ==
    LET cur == tasks[t].cur
        dep == g.heap[cur].dependencies[tasks[t].j]
        r == allDependenciesMet(g.heap[cur], tasks[t].j, executed[dep])
        child == Append(t, cur)
    IN  /\ tasks[t].pc = "metread"
        /\ mu' = Unlock(mu, dep)
        /\ CASE r = "next" ->
                  tasks' = [tasks EXCEPT ![t].pc = "met", ![t].j = @ + 1]
             [] r = "false" ->
                  \E n \in Continue(t, tasks[t].todo) :
                     tasks' = [tasks EXCEPT ![t] = n]
             [] r = "true" ->
                  \E n \in Continue(t, tasks[t].todo) :
                     tasks' = [x \in DOMAIN tasks \cup { child } |->
                                 IF x = child THEN NewTask
                                 ELSE IF x = t THEN [n EXCEPT !.wg = @ + 1]
                                 ELSE tasks[x]]
        /\ UNCHANGED << g, req, written, runs, built, checks, condCall, pm,
                        ex, executed, exec, invoked, failed, errored >>

\* lines 213-223: wg.Wait(), close(errChan), return the first error or nil
Wait(t) ==
    /\ tasks[t].pc = "wait"
    /\ WaitReturns(tasks[t].wg)
    /\ CanSend(t, FirstError(tasks[t].errChan))
    /\ tasks' = Returned(t, FirstError(tasks[t].errChan))
    /\ exec' = ReturnedTo(t, FirstError(tasks[t].errChan))
    /\ UNCHANGED << g, req, written, runs, built, checks, condCall, pm, ex,
                    executed, mu, invoked, failed, errored >>

Next ==
    \/ Execute
    \/ ExecuteReturn
    \/ \E t \in DOMAIN tasks : LockGuard(t)
    \/ \E t \in DOMAIN tasks : Guard(t)
    \/ \E t \in DOMAIN tasks : LockSkip(t)
    \/ \E t \in DOMAIN tasks : Skip(t)
    \/ \E t \in DOMAIN tasks : Run(t)
    \/ \E t \in DOMAIN tasks : LockExecuted(t)
    \/ \E t \in DOMAIN tasks : SetExecuted(t)
    \/ \E t \in DOMAIN tasks : LockDependency(t)
    \/ \E t \in DOMAIN tasks : ReadDependency(t)
    \/ \E t \in DOMAIN tasks : Wait(t)

Spec == Init /\ [][Next]_vars

\* acyclic and cyclic graphs, every goroutine being scheduled: a step that
\* can be taken is taken in the end
InitCyclic == InitOn(Graphs \cup CyclicGraphs)

FairSpec == InitCyclic /\ [][Next]_vars /\ WF_vars(Next)

(***************************************************************************)
(* The graph used again: builder calls and a further Execute on a graph    *)
(* whose Execute has returned.                                             *)
(***************************************************************************)
MaxRuns == 2
MaxBuilds == 1

\* fetch -> build -> test with plain, optional and skipped stages
ReuseGraphs ==
    { Chain(d) : d \in [1 .. 3 -> { Plain,
                                    [platform |-> "", calls |-> << OptionalCall >>],
                                    [platform |-> "",
                                     calls |-> << UnlessCall(IsLinux) >>] }] }

\* the graphs one more builder call makes of gr: a chained call on a stage, a
\* further dependency, a new stage, a name registered again
BuilderCalls(gr) ==
    { Call(gr, s, c) :
        s \in 1 .. Len(gr.heap),
        c \in { OptionalCall, RequiresCall("make"), UnlessCall(IsLinux) } }
      \cup { After(gr, s, << d >>) : s \in 1 .. Len(gr.heap),
                                      d \in 1 .. Len(gr.heap) }
      \cup { AddStage(gr, n, UserRun) : n \in { "late", gr.heap[1].name } }
      \cup { PlatformBuilder_AddStage(gr, "darwin", "late", UserRun) }

\* per-stage state f after the call that made gr: a GraphStage allocated by
\* the call has the zero value of executed, the others are left alone
Grown(f, gr, zero) ==
    [p \in 1 .. Len(gr.heap) |-> IF p \in DOMAIN f THEN f[p] ELSE zero]

\* a builder call on the graph between two runs
Build ==
    /\ exec.pc = "done"
    /\ built < MaxBuilds
    /\ \E gr \in BuilderCalls(g) :
          /\ g' = gr
          /\ executed' = Grown(executed, gr, FALSE)
          /\ mu' = Grown(mu, gr, NoTask)
          /\ invoked' = Grown(invoked, gr, 0)
          /\ written' = Grown(written, gr, 0)
          /\ checks' = Grown(checks, gr, {})
    /\ built' = built + 1
    /\ UNCHANGED << req, runs, condCall, pm, ex, exec, tasks, failed, errored >>

\* Execute starting from a clean graph
ExecuteAgain_clean ==
    /\ exec.pc = "done"
    /\ runs < MaxRuns
    /\ exec' = [pc |-> "wait", wg |-> Cardinality(Roots(g)),
                errChan |-> << >>, ret |-> Nil]
    /\ tasks' = [t \in { << r >> : r \in Roots(g) } |-> NewTask]
    /\ runs' = runs + 1
    /\ executed' = [p \in Ptrs |-> FALSE]
    /\ invoked' = [p \in Ptrs |-> 0]
    /\ written' = [p \in Ptrs |-> 0]
    /\ checks' = [p \in Ptrs |-> {}]
    /\ failed' = {}
    /\ errored' = {}
    /\ UNCHANGED << g, req, built, condCall, pm, ex, mu >>

\* lines 93-116, Execute called on a graph it has run on: no field of a
\* GraphStage is reset; what is recorded of a run starts again
ExecuteAgain ==
    /\ exec.pc = "done"
    /\ runs < MaxRuns
    /\ exec' = [pc |-> "wait", wg |-> Cardinality(Roots(g)),
                errChan |-> << >>, ret |-> Nil]
    /\ tasks' = [t \in { << r >> : r \in Roots(g) } |-> NewTask]
    /\ runs' = runs + 1
    /\ invoked' = [p \in Ptrs |-> 0]
    /\ written' = [p \in Ptrs |-> 0]
    /\ checks' = [p \in Ptrs |-> {}]
    /\ failed' = {}
    /\ errored' = {}
    /\ UNCHANGED << g, req, built, condCall, pm, ex, executed, mu >>

InitReuse == InitOn(ReuseGraphs)

NextReuse == Next \/ Build \/ ExecuteAgain

ReuseSpec == InitReuse /\ [][NextReuse]_vars

(***************************************************************************)
(* Package pkg: the selection of a package manager and the calls of its    *)
(* methods.  What Available() of Homebrew, Yay and Pacman answers and what *)
(* exec.LookPath resolves are inputs taken from the machine.               *)
(***************************************************************************)
schedVars ==
    << g, req, executed, mu, exec, tasks, invoked, failed, errored, written,
       runs, built, checks >>

\* var managerPriority
managerPriority ==
    [darwin |-> << "homebrew" >>, linux |-> << "yay", "pacman" >>]

\* the error of Noop.Install, and the errors of Install without its tool
NotSupported == "package manager not supported on this platform"
NotInstalled == [homebrew |-> "homebrew not installed",
                 yay |-> "yay not installed"]

\* the command an implementation runs
Tool == [homebrew |-> "brew", yay |-> "yay"]
InstallArgs == [homebrew |-> << "install" >>, yay |-> << "-S", "--noconfirm" >>]

\* m.Available(): false for Noop, the machine's answer for the others
Available(m, avail) == IF m = "noop" THEN FALSE ELSE avail[m]

\* for _, m := range managers { if m.Available() { return m } }; &Noop{}
RECURSIVE FirstAvailable(_, _)
FirstAvailable(managers, avail) ==
    IF managers = << >> THEN "noop"
    ELSE IF Available(Head(managers), avail) THEN Head(managers)
    ELSE FirstAvailable(Tail(managers), avail)

\* NewManager returning the first registered manager without asking it
NewManager_unchecked(os, avail) ==
    IF os \notin DOMAIN managerPriority THEN "noop"
    ELSE Head(managerPriority[os])

\* managers, ok := managerPriority[os]; if !ok { return &Noop{} }; the loop
NewManager(os, avail) ==
    IF os \notin DOMAIN managerPriority THEN "noop"
    ELSE FirstAvailable(managerPriority[os], avail)

\* Install looking for its tool before looking at the packages
Install_eager(m, packages, path, run) ==
    IF m = "noop" THEN [err |-> NotSupported, cmd |-> << >>]
    ELSE IF Tool[m] \notin path THEN [err |-> NotInstalled[m], cmd |-> << >>]
    ELSE IF Len(packages) = 0 THEN [err |-> "", cmd |-> << >>]
    ELSE [err |-> run, cmd |-> << Tool[m] >> \o InstallArgs[m] \o packages]

\* Noop.Install, Homebrew.Install, Yay.Install: the error returned ("" for
\* nil) and the external command run; run is what cmd.Run() returns
Install(m, packages, path, run) ==
    IF m = "noop" THEN [err |-> NotSupported, cmd |-> << >>]
    ELSE IF Len(packages) = 0 THEN [err |-> "", cmd |-> << >>]
    ELSE IF Tool[m] \notin path THEN [err |-> NotInstalled[m], cmd |-> << >>]
    ELSE [err |-> run, cmd |-> << Tool[m] >> \o InstallArgs[m] \o packages]

\* Noop.IsInstalled, Homebrew.IsInstalled, Yay.IsInstalled
IsInstalled(m, pkg, path, run) ==
    IF m = "noop" THEN FALSE
    ELSE IF Tool[m] \notin path THEN FALSE
    ELSE run = ""

\* the inputs of the calls
OSNames == { "darwin", "linux", "windows" }
Receivers == { "homebrew", "yay", "noop" }
PackageLists == { << >>, << "vim" >>, << "vim", "git" >> }
CmdErrors == { "", "exit status 1" }

\* the machines: what Available() answers, and the tools exec.LookPath finds
Machines ==
    [os : OSNames,
     avail : [{ "homebrew", "yay", "pacman" } -> BOOLEAN],
     path : SUBSET { "brew", "yay" },
     call : { "" }, recv : { "" }, args : { << >> }, ret : { "" },
     cmd : { << >> }]

InitPkg ==
    /\ Unrun({ NewGraph })
    /\ condCall = NoCondition
    /\ pm \in Machines
    /\ ex = NoExecutor

\* pkg.NewManager(os)
CallNewManager ==
    /\ pm' = [pm EXCEPT !.call = "NewManager", !.recv = "",
                        !.args = << pm.os >>,
                        !.ret = NewManager(pm.os, pm.avail), !.cmd = << >>]
    /\ UNCHANGED << schedVars, condCall, ex >>

\* m.Install(packages...)
CallInstall ==
    /\ \E m \in Receivers, packages \in PackageLists, run \in CmdErrors :
          LET r == Install(m, packages, pm.path, run)
          IN  pm' = [pm EXCEPT !.call = "Install", !.recv = m,
                               !.args = packages, !.ret = r.err,
                               !.cmd = r.cmd]
    /\ UNCHANGED << schedVars, condCall, ex >>

\* m.IsInstalled(pkg)
CallIsInstalled ==
    /\ \E m \in Receivers, run \in CmdErrors :
          pm' = [pm EXCEPT !.call = "IsInstalled", !.recv = m,
                           !.args = << "vim" >>,
                           !.ret = IsInstalled(m, "vim", pm.path, run),
                           !.cmd = << >>]
    /\ UNCHANGED << schedVars, condCall, ex >>

\* m.Available()
CallAvailable ==
    /\ \E m \in Receivers :
          pm' = [pm EXCEPT !.call = "Available", !.recv = m, !.args = << >>,
                           !.ret = Available(m, pm.avail), !.cmd = << >>]
    /\ UNCHANGED << schedVars, condCall, ex >>

NextPkg == CallNewManager \/ CallInstall \/ CallIsInstalled \/ CallAvailable

PkgSpec == InitPkg /\ [][NextPkg]_vars

(***************************************************************************)
(* Package exec: RealExecutor.Run.  A file path is the sequence of its     *)
(* directories and its base name; the clock counts ticks, and the          *)
(* timestamp of a log file has the resolution of a second.                 *)
(***************************************************************************)
MaxCalls == 2
MaxTime == 2
TicksPerSecond == 2

LogDir == "bootstrap-logs"

\* programs as given to Run: "false" and "bin/false"
Programs == { << "false" >>, << "bin", "false" >> }
Arguments == { << >>, << "-v" >> }

\* what cmd.Run() returns: nil, a non-zero exit, a program that is not found
RunErrors == { "", "exit status 1", "executable file not found" }

\* time.Now().Format("20060102-150405")
Timestamp(now) == now \div TicksPerSecond

\* filepath.Join(r.LogDir, fmt.Sprintf("%s-%s.log", name, timestamp))
LogFile(name, now) ==
    [dir |-> << LogDir >> \o SubSeq(name, 1, Len(name) - 1),
     base |-> << name[Len(name)], Timestamp(now) >>]

\* the empty LogFile of a RunResult
NoLogFile == [dir |-> << >>, base |-> << >>]

\* lines 56-59: the command, its arguments and the error
LogContent(name, args, err) == [name |-> name, args |-> args, err |-> err]

\* os.WriteFile(path, data, 0644): creates or truncates the file; fails when
\* the directory of the path does not exist
WriteFile(e, path, data) ==
    IF path.dir \in e.dirs
      THEN [ok |-> TRUE, files |-> (path :> data) @@ e.files]
      ELSE [ok |-> FALSE, files |-> e.files]

RunResult(success, logFile, error) ==
    [Success |-> success, LogFile |-> logFile, Error |-> error]

\* Run returning the path of the log whether or not it was written
RealExecutor_Run_pathAlways(e, name, args, err) ==
    IF err # ""
      THEN LET logFile == LogFile(name, e.now)
               w == WriteFile(e, logFile, LogContent(name, args, err))
           IN  [res |-> RunResult(FALSE, logFile, err), files |-> w.files]
      ELSE [res |-> RunResult(TRUE, NoLogFile, ""), files |-> e.files]

\* RealExecutor.Run, lines 42-70, err being what cmd.Run() returned: the
\* RunResult and the files of the machine afterwards
RealExecutor_Run(e, name, args, err) ==
    IF err # ""
      THEN LET logFile == LogFile(name, e.now)
               w == WriteFile(e, logFile, LogContent(name, args, err))
           IN  IF ~w.ok
                 THEN [res |-> RunResult(FALSE, NoLogFile, err),
                       files |-> e.files]
                 ELSE [res |-> RunResult(FALSE, logFile, err),
                       files |-> w.files]
      ELSE [res |-> RunResult(TRUE, NoLogFile, ""), files |-> e.files]

\* a RealExecutor whose LogDir exists (os.MkdirAll succeeded) or not (its
\* error is ignored at line 35, and LogDir can be set by the caller)
Executors ==
    [now : { 0 }, dirs : { {}, { << LogDir >> } }, files : { << >> },
     results : { << >> }]

InitExec ==
    /\ Unrun({ NewGraph })
    /\ condCall = NoCondition
    /\ pm = NoCall
    /\ ex \in Executors

\* one call of r.Run(name, args...), recorded with its result
CallRun ==
    /\ Len(ex.results) < MaxCalls
    /\ \E name \in Programs, args \in Arguments, err \in RunErrors :
          LET r == RealExecutor_Run(ex, name, args, err)
          IN  ex' = [ex EXCEPT
                       !.files = r.files,
                       !.results = Append(@, [name |-> name, args |-> args,
                                              err |-> err, at |-> ex.now,
                                              res |-> r.res])]
    /\ UNCHANGED << schedVars, condCall, pm >>

\* time passes
Tick ==
    /\ ex.now < MaxTime
    /\ ex' = [ex EXCEPT !.now = @ + 1]
    /\ UNCHANGED << schedVars, condCall, pm >>

NextExec == CallRun \/ Tick

ExecSpec == InitExec /\ [][NextExec]_vars

(***************************************************************************)
(* Package pipeline, conditions.go: Not, And and Or.  A call gives the     *)
(* value returned and the conditions that were called, in order.           *)
(***************************************************************************)
MaxConditions == 3

\* Not(condition)(req), line 57
Not(condition, rq) ==
    [val |-> ~Eval(condition, rq), seen |-> << condition >>]

\* And calling every condition before it answers
And_eager(conditions, rq) ==
    [val |-> \A i \in DOMAIN conditions : Eval(conditions[i], rq),
     seen |-> conditions]

\* And(conditions...)(req), lines 64-69: false at the first condition that
\* is false, true after the loop
And(conditions, rq) ==
    LET no == { i \in DOMAIN conditions : ~Eval(conditions[i], rq) }
    IN  IF no = {} THEN [val |-> TRUE, seen |-> conditions]
        ELSE [val |-> FALSE, seen |-> SubSeq(conditions, 1, First(no))]

\* Or(conditions...)(req), lines 76-81: true at the first condition that is
\* true, false after the loop
Or(conditions, rq) ==
    LET yes == { i \in DOMAIN conditions : Eval(conditions[i], rq) }
    IN  IF yes = {} THEN [val |-> FALSE, seen |-> conditions]
        ELSE [val |-> TRUE, seen |-> SubSeq(conditions, 1, First(yes))]

\* the conditions combined, and the requests they are called with
Leaves == { IsMac, IsLinux, CommandExists("git"), CommandExists("make") }

Request(os) == [Env |-> [OS |-> os], Services |-> [Executor |-> Path]]

ConditionCalls ==
    [op : { "And", "Or" },
     args : UNION { [1 .. n -> Leaves] : n \in 0 .. MaxConditions },
     os : { "darwin", "linux" }, called : { FALSE }, val : { FALSE },
     seen : { << >> }]
      \cup [op : { "Not" }, args : [1 .. 1 -> Leaves],
            os : { "darwin", "linux" }, called : { FALSE }, val : { FALSE },
            seen : { << >> }]

InitCond ==
    /\ Unrun({ NewGraph })
    /\ condCall \in ConditionCalls
    /\ pm = NoCall
    /\ ex = NoExecutor

\* the combined condition is called with the request
CallCondition ==
    /\ ~condCall.called
    /\ LET rq == Request(condCall.os)
           r == CASE condCall.op = "And" -> And(condCall.args, rq)
                  [] condCall.op = "Or" -> Or(condCall.args, rq)
                  [] condCall.op = "Not" -> Not(condCall.args[1], rq)
       IN  condCall' = [condCall EXCEPT !.called = TRUE, !.val = r.val,
                                        !.seen = r.seen]
    /\ UNCHANGED << schedVars, pm, ex >>

NextCond == CallCondition

CondSpec == InitCond /\ [][NextCond]_vars

(***************************************************************************)
(* Building a graph: the registrations of stages on a new Graph, through   *)
(* Graph.AddStage, a PlatformBuilder, Graph.AddMerge and a MergeBuilder,   *)
(* under names that may be registered already.                             *)
(***************************************************************************)
MaxStages == 3

StageNames == { "A", "B" }

\* a registration that makes gr of the graph
Registers(gr) ==
    /\ exec.pc = "idle"
    /\ Len(g.heap) < MaxStages
    /\ g' = gr
    /\ executed' = Grown(executed, gr, FALSE)
    /\ mu' = Grown(mu, gr, NoTask)
    /\ invoked' = Grown(invoked, gr, 0)
    /\ written' = Grown(written, gr, 0)
    /\ checks' = Grown(checks, gr, {})
    /\ UNCHANGED << req, runs, built, condCall, pm, ex, exec, tasks, failed,
                    errored >>

CallAddStage == \E n \in StageNames : Registers(AddStage(g, n, UserRun))

CallPlatformAddStage ==
    \E pl \in { "darwin", "linux" }, n \in StageNames :
        Registers(PlatformBuilder_AddStage(g, pl, n, UserRun))

\* the stages ...*GraphStage[T] handed to AddMerge are pointers to stages
\* made so far, registered still or not
CallAddMerge ==
    \E n \in StageNames,
       stages \in { << >> } \cup { << p >> : p \in Ptrs }
                   \cup { << p, q >> : p \in Ptrs, q \in Ptrs } :
        Registers(AddMerge(g, n, stages))

\* the MergeBuilder refers to a merge stage made by AddMerge
CallMergeAddStage ==
    \E m \in { p \in Ptrs : g.heap[p].run = NoopRun }, n \in StageNames :
        Registers(MergeBuilder_AddStage(g, m, n, UserRun))

NextBuild ==
    \/ CallAddStage
    \/ CallPlatformAddStage
    \/ CallAddMerge
    \/ CallMergeAddStage

BuildSpec == InitOn({ NewGraph }) /\ [][NextBuild]_vars

(***************************************************************************)
(* Graphs with a dependency added twice: After called with a stage that is *)
(* in the dependencies list already, or with one stage twice.              *)
(***************************************************************************)
\* plain, optional, failing its requirement, skipped
DupProfiles ==
    { Plain,
      [platform |-> "", calls |-> << OptionalCall >>],
      [platform |-> "", calls |-> << RequiresCall("make") >>],
      [platform |-> "", calls |-> << UnlessCall(IsLinux) >>] }

\* A -> {B, C} -> D with After(A) called on B once more (again = << 1 >>)
\* or not (<< >>), and D made dependent on the stages of list
DupDiamond(d, again, list) ==
    LET g1 == Register(NewGraph, d[1], "A")
        g2 == After(After(Register(g1, d[2], "B"), 2, << 1 >>), 2, again)
        g3 == After(Register(g2, d[3], "C"), 3, << 1 >>)
    IN  After(Register(g3, d[4], "D"), 4, list)

DupGraphs ==
    { DupDiamond(d, again, list) :
        d \in [1 .. 4 -> DupProfiles],
        again \in { << >>, << 1 >> },
        list \in { << 2, 2, 3 >>, << 2, 3, 2 >> } }

\* the list of dependencies with each stage kept where it comes first
RECURSIVE Uniq(_)
Uniq(deps) ==
    IF deps = << >> THEN << >>
    ELSE LET front == Uniq(SubSeq(deps, 1, Len(deps) - 1))
             last == deps[Len(deps)]
         IN  IF \E i \in DOMAIN front : front[i] = last THEN front
             ELSE Append(front, last)

\* the graph the same builder calls make when no dependency is added twice
Dedup(gr) ==
    [gr EXCEPT !.heap = [p \in DOMAIN gr.heap |->
                           [gr.heap[p] EXCEPT !.dependencies = Uniq(@)]]]

DupSpec == InitOn(DupGraphs) /\ [][Next]_vars

(***************************************************************************)
(* Graphs with a name registered twice, run by Execute.                    *)
(***************************************************************************)
\* A, B after A, then A registered again, C after the new A and D after B:
\* B still depends on the stage first registered as A
ShadowedRoot(d) ==
    LET g1 == Register(NewGraph, d[1], "A")
        g2 == After(Register(g1, d[2], "B"), 2, << 1 >>)
        g3 == Register(g2, d[3], "A")
        g4 == After(Register(g3, d[4], "C"), 4, << 3 >>)
    IN  After(Register(g4, d[5], "D"), 5, << 2 >>)

\* A, B after A, then B registered again (after A, or with no dependency),
\* C after the B first registered and D after the new B
ShadowedDependent(d, deps) ==
    LET g1 == Register(NewGraph, d[1], "A")
        g2 == After(Register(g1, d[2], "B"), 2, << 1 >>)
        g3 == After(Register(g2, d[3], "B"), 3, deps)
        g4 == After(Register(g3, d[4], "C"), 4, << 2 >>)
    IN  After(Register(g4, d[5], "D"), 5, << 3 >>)

\* A, B, AddMerge("wait", A, B), then "wait" registered again by AddStage,
\* and C added through the MergeBuilder: C depends on the merge stage
ShadowedMerge(d) ==
    LET g1 == Register(NewGraph, d[1], "A")
        g2 == Register(g1, d[2], "B")
        g3 == AddMerge(g2, "wait", << 1, 2 >>)
        g4 == Register(g3, d[4], "wait")
    IN  CallAll(MergeBuilder_AddStage(g4, 3, "C", UserRun), 5, d[5].calls)

ShadowGraphs ==
    { ShadowedRoot(d) : d \in [1 .. 5 -> DupProfiles] }
      \cup { ShadowedDependent(d, deps) :
               d \in [1 .. 5 -> DupProfiles], deps \in { << >>, << 1 >> } }
      \cup { ShadowedMerge(d) :
               d \in { e \in [1 .. 5 -> DupProfiles] : e[3] = Plain } }

ShadowSpec == InitOn(ShadowGraphs) /\ [][Next]_vars

(***************************************************************************)
(* The two schedulers side by side: the same graphs built on a Graph[T]    *)
(* and on the Graph without type parameter, whose builders are the same    *)
(* code.  Whether a command resolves is a fact of the machine, the same    *)
(* for Executor.LookPath and for CommandExists(cmd)(ctx).                  *)
(***************************************************************************)
\* plain, optional, requiring a missing command (optional or not), of
\* another platform, passing every check
PairProfiles ==
    { Plain,
      [platform |-> "", calls |-> << OptionalCall >>],
      [platform |-> "", calls |-> << RequiresCall("make") >>],
      [platform |-> "", calls |-> << RequiresCall("make"), OptionalCall >>],
      [platform |-> "darwin", calls |-> << >>],
      [platform |-> "linux",
       calls |-> << UnlessCall(IsMac), RequiresCall("git") >>] }

\* the graph the same builder calls make on the Graph without type parameter
AsContext(gr) == [gr EXCEPT !.generic = FALSE]

PairGraphs ==
    LET base == { Diamond(d) : d \in [1 .. 4 -> PairProfiles] }
    IN  base \cup { AsContext(gr) : gr \in base }

PairSpec == InitOn(PairGraphs) /\ [][Next]_vars

(***************************************************************************)
(* Properties.                                                             *)
(***************************************************************************)
\* Execute has returned
Done == exec.pc = "done"

\* the dependencies of stage p, as a set
Deps(p) == { g.heap[p].dependencies[i] : i \in DOMAIN g.heap[p].dependencies }

\* the stages for which executeStage returned an error of their own
FailedStages == { f.stage : f \in failed }

\* the goroutines that ran executeStage for stage p
TasksOf(p) == { t \in DOMAIN tasks : StageOf(t) = p }

\* C1: a stage's handler is invoked, and its executed flag set, only when
\* every stage of its dependencies list already has its executed flag set
C1_DependenciesFirst ==
    \A p \in Ptrs :
        (invoked[p] > 0 \/ executed[p]) => \A d \in Deps(p) : executed[d]

\* the handler of a stage with two dependencies has been invoked
C1_Witness ==
    \E p \in Ptrs : invoked[p] > 0 /\ Cardinality(Deps(p)) = 2

\* C2: in one run of Execute each stage's handler is invoked at most once
C2_AtMostOnce == \A p \in Ptrs : invoked[p] <= 1

\* a non-optional stage's handler returned an error
HandlerFailure == \E p \in errored : ~g.heap[p].optional

\* an executeStage for a non-optional stage came to the required-command
\* check with a command that does not resolve
RequirementFailure ==
    \E p \in Ptrs :
        /\ ~g.heap[p].optional
        /\ g.heap[p].platform = "" \/ g.heap[p].platform = g.platform
        /\ \A i \in DOMAIN g.heap[p].unless : ~Eval(g.heap[p].unless[i], req)
        /\ \E i \in DOMAIN g.heap[p].requires :
              g.heap[p].requires[i] \notin req.Services.Executor
        /\ \E t \in DOMAIN tasks : StageOf(t) = p /\ tasks[t].pc = "done"

\* C3: Execute returns nil if and only if no non-optional stage failed (no
\* non-optional handler returned an error and no non-optional stage reached
\* its required-command check with a command missing); otherwise it returns
\* one of the errors raised in the run
C3_NilIffNoFailure ==
    Done => /\ (exec.ret = Nil) <=> ~(HandlerFailure \/ RequirementFailure)
            /\ (exec.ret = Nil) <=> (failed = {})
            /\ exec.ret # Nil => \E f \in failed : f.err = exec.ret

\* Execute returned the error of a stage that is not a root
C3_Witness ==
    /\ Done
    /\ exec.ret # Nil
    /\ \E f \in failed : f.err = exec.ret /\ Deps(f.stage) # {}

\* C4: once a non-optional stage's handler has returned an error, the run
\* fails, the stage's executed flag is never set and no stage that lists it
\* in its dependencies has its handler invoked
C4_FailedNeverExecuted ==
    \A p \in errored :
        ~g.heap[p].optional =>
            /\ Done => exec.ret # Nil
            /\ ~executed[p]
            /\ \A q \in Ptrs : p \in Deps(q) => invoked[q] = 0

\* C5: an optional stage whose handler returned an error raises no error of
\* its own, is marked executed, and its dependents are launched as after a
\* success: a dependent all of whose dependencies ran and are executed has
\* been launched when Execute returns
C5_OptionalFailure ==
    \A p \in errored :
        g.heap[p].optional =>
            /\ p \notin FailedStages
            /\ exec.ret # Nil => exec.ret.stage # g.heap[p].name
            /\ \A t \in TasksOf(p) : tasks[t].pc = "done" => executed[p]
            /\ Done =>
                 \A q \in findDependents(g, p) :
                     (\A d \in Deps(q) : executed[d] /\ invoked[d] > 0)
                         => TasksOf(q) # {}

\* Execute returned nil although the handler of an optional stage with a
\* dependent returned an error, and the dependent's handler was invoked
C5_Witness ==
    /\ Done
    /\ exec.ret = Nil
    /\ \E p \in errored :
          /\ g.heap[p].optional
          /\ \E q \in findDependents(g, p) : invoked[q] > 0

\* the static outcome of the checks of stage p on this graph and request
PlatformMismatch(p) ==
    g.heap[p].platform # "" /\ g.heap[p].platform # g.platform
UnlessTrue(p) ==
    \E i \in DOMAIN g.heap[p].unless : Eval(g.heap[p].unless[i], req)
MissingCommand(p) ==
    \E i \in DOMAIN g.heap[p].requires :
        g.heap[p].requires[i] \notin req.Services.Executor

\* fetch -> build (Requires make) -> test (Optional)
FetchBuildTest ==
    Chain(<< Plain,
             [platform |-> "", calls |-> << RequiresCall("make") >>],
             [platform |-> "", calls |-> << OptionalCall >>] >>)

\* C6: a stage that reaches its required-command check with a command that
\* does not resolve never has its handler invoked; when optional it is marked
\* executed and raises no error; when not optional executeStage returns the
\* missing-requirement error, Execute returns an error and no stage depending
\* on it is invoked; on fetch -> build (requires make) -> test (optional)
\* with make absent and fetch succeeding, fetch completes, build fails, test
\* is never invoked and Execute returns build's error
C6_MissingRequirement ==
    /\ \A p \in Ptrs :
         (~PlatformMismatch(p) /\ ~UnlessTrue(p) /\ MissingCommand(p)) =>
            /\ invoked[p] = 0
            /\ g.heap[p].optional =>
                 /\ p \notin FailedStages
                 /\ exec.ret # Nil => exec.ret.stage # g.heap[p].name
                 /\ \A t \in TasksOf(p) : tasks[t].pc = "done" => executed[p]
            /\ ~g.heap[p].optional =>
                 /\ ~executed[p]
                 /\ \A q \in Ptrs : p \in Deps(q) => invoked[q] = 0
                 /\ \A t \in TasksOf(p) :
                       tasks[t].pc = "done" =>
                          /\ tasks[t].ret.kind = "requires"
                          /\ tasks[t].ret.stage = g.heap[p].name
                 /\ (Done /\ TasksOf(p) # {}) =>
                       /\ exec.ret # Nil
                       /\ FailedStages = { p } => exec.ret.kind = "requires"
    /\ (g = FetchBuildTest /\ Done /\ errored = {}) =>
          /\ executed = << TRUE, FALSE, FALSE >>
          /\ invoked = << 1, 0, 0 >>
          /\ exec.ret = [stage |-> "build", kind |-> "requires",
                         cause |-> "make"]

\* Execute returned on fetch -> build (requires make) -> test (optional)
\* after fetch succeeded
C6_Witness == g = FetchBuildTest /\ Done /\ errored = {}

\* C7 as claimed: when Execute returns, every stage whose platform differs
\* from the graph's is marked executed, whatever became of its dependencies
C7_AlwaysMarked ==
    Done =>
      \A p \in Ptrs :
          PlatformMismatch(p) =>
              invoked[p] = 0 /\ executed[p] /\ p \notin FailedStages

\* C7: a stage whose platform differs from the graph's never has its handler
\* invoked and raises no error, and it is marked executed by the time an
\* executeStage for it returns, hence when Execute returns if executeStage
\* was called for it
C7_PlatformSkip ==
    \A p \in Ptrs :
        PlatformMismatch(p) =>
            /\ invoked[p] = 0
            /\ p \notin FailedStages
            /\ \A t \in TasksOf(p) :
                  tasks[t].pc = "done" => executed[p] /\ tasks[t].ret = Nil
            /\ (Done /\ TasksOf(p) # {}) => executed[p]

\* a stage of another platform with a dependency, an unless condition and a
\* missing required command was reached and marked executed
C7_Witness ==
    \E p \in Ptrs :
        /\ PlatformMismatch(p)
        /\ Deps(p) # {}
        /\ MissingCommand(p)
        /\ executed[p]
        /\ \E t \in TasksOf(p) : tasks[t].pc = "done"

\* C8: a stage one of whose unless conditions is true never has its handler
\* invoked and raises no error, optional or not, and it is marked executed
\* by the time an executeStage for it returns
C8_UnlessSkip ==
    \A p \in Ptrs :
        UnlessTrue(p) =>
            /\ invoked[p] = 0
            /\ p \notin FailedStages
            /\ \A t \in TasksOf(p) :
                  tasks[t].pc = "done" => executed[p] /\ tasks[t].ret = Nil

\* a non-optional stage whose second unless condition is true was skipped
C8_Witness ==
    \E p \in Ptrs :
        /\ Len(g.heap[p].unless) = 2
        /\ ~Eval(g.heap[p].unless[1], req)
        /\ Eval(g.heap[p].unless[2], req)
        /\ ~g.heap[p].optional
        /\ executed[p]
        /\ \E t \in TasksOf(p) : tasks[t].pc = "done"

\* the stages stage p depends on, directly or not, and p itself
RECURSIVE UpTo(_, _)
UpTo(S, n) ==
    IF n = 0 THEN S ELSE UpTo(S \cup UNION { Deps(p) : p \in S }, n - 1)
Upstream(p) == UpTo({ p }, Len(g.heap))

\* stage p passes the platform, unless and requires checks
Passes(p) == ~PlatformMismatch(p) /\ ~UnlessTrue(p) /\ ~MissingCommand(p)

\* C9: when Execute has returned every goroutine of the run has returned, so
\* no handler is running, and none is invoked afterwards; a failure does not
\* keep the stages that are not downstream of a failed stage from running
C9_WaitsForAll ==
    /\ [](Done =>
            /\ \A t \in DOMAIN tasks : tasks[t].pc = "done"
            /\ \A p \in Ptrs :
                  (\A a \in Upstream(p) : Passes(a) /\ a \notin FailedStages)
                      => executed[p] /\ invoked[p] > 0)
    /\ [][Done => invoked' = invoked /\ executed' = executed]_vars

\* Execute returned an error, and a stage with dependencies that is not
\* downstream of the failed stage was executed
C9_Witness ==
    /\ Done
    /\ failed # {}
    /\ \E p \in Ptrs :
          /\ Deps(p) # {}
          /\ Upstream(p) \cap FailedStages = {}
          /\ invoked[p] > 0
          /\ executed[p]

\* C10: on M = AddMerge("wait", A, B) with C registered through M's scope,
\* C's handler is invoked only when A and B are executed; when A or B fails,
\* the other one still completes, neither the merge stage nor C is invoked,
\* and Execute returns the failure
C10_MergePoint ==
    "wait" \in DOMAIN g.stages =>
        LET a == g.stages["A"]
            b == g.stages["B"]
            m == g.stages["wait"]
            c == g.stages["C"]
        IN  /\ invoked[c] > 0 => executed[a] /\ executed[b]
            /\ \A x \in { a, b } \cap FailedStages :
                  /\ invoked[m] = 0
                  /\ invoked[c] = 0
                  /\ Done =>
                       /\ \A y \in { a, b } \ FailedStages : executed[y]
                       /\ exec.ret # Nil
                       /\ FailedStages = { x } =>
                            exec.ret.stage = g.heap[x].name

\* Execute returned A's error after B completed behind a merge of A and B
C10_Witness ==
    /\ Done
    /\ "wait" \in DOMAIN g.stages
    /\ FailedStages = { g.stages["A"] }
    /\ executed[g.stages["B"]]
    /\ invoked[g.stages["B"]] = 1
    /\ exec.ret.stage = "A"

\* C11: on every graph, acyclic or cyclic, Execute returns and every
\* goroutine it launched has returned: no goroutine stays blocked on a stage
\* lock, on a wait group or on a send to an error channel
C11_Terminates == <>(Done /\ \A t \in DOMAIN tasks : tasks[t].pc = "done")

\* Execute returned after the error channel of a goroutine was filled to its
\* capacity by its dependents
C11_Witness ==
    /\ Done
    /\ \E t \in DOMAIN tasks :
          /\ Len(tasks[t].errChan) >= 2
          /\ Len(tasks[t].errChan)
                = ChanCap(Cardinality(findDependents(g, StageOf(t))))

\* every stage of g.stages has at least one dependency
AllDependent == \A p \in Registered(g) : Deps(p) # {}

\* C12: when every stage has at least one dependency the root set is empty,
\* no goroutine is launched, no handler is invoked, no executed flag is set,
\* and Execute returns, with nil
C12_NoRoots ==
    /\ [](AllDependent =>
             /\ Roots(g) = {}
             /\ tasks = << >>
             /\ \A p \in Ptrs : invoked[p] = 0 /\ ~executed[p]
             /\ Done => exec.ret = Nil)
    /\ (AllDependent ~> Done)

\* Execute returned on a graph all of whose stages have a dependency, one of
\* them optional and restricted to another platform
C12_Witness ==
    /\ Done
    /\ AllDependent
    /\ \E p \in Ptrs : g.heap[p].optional
    /\ \E p \in Ptrs : PlatformMismatch(p)

\* stage p is on a dependency cycle: it is upstream of one of its dependencies
OnCycle(p) == \E d \in Deps(p) : p \in Upstream(d)

\* stage p is on a dependency cycle or depends on a stage that is
CycleBound(p) == \E c \in Upstream(p) : OnCycle(c)

\* C13: a stage on a dependency cycle, or depending on one, is never found
\* eligible: no goroutine is launched for it, its handler is not invoked and
\* its executed flag is not set; a stage with no relation to the cycle
\* completes as on an acyclic graph (when it and its upstream stages pass
\* their checks and do not fail, it has run and is executed when Execute
\* returns); and Execute returns
C13_CycleNeverRuns ==
    /\ [](\A p \in Ptrs :
             /\ CycleBound(p) =>
                  TasksOf(p) = {} /\ invoked[p] = 0 /\ ~executed[p]
             /\ (/\ Done
                 /\ ~CycleBound(p)
                 /\ \A a \in Upstream(p) : Passes(a) /\ a \notin FailedStages)
                    => executed[p] /\ invoked[p] > 0)
    /\ ((\E p \in Ptrs : OnCycle(p)) ~> Done)

\* Execute returned on a graph with a cycle one of whose stages has an
\* executed dependency, after a stage outside the cycle with a dependency ran
C13_Witness ==
    /\ Done
    /\ \E p \in Ptrs : OnCycle(p) /\ \E d \in Deps(p) : executed[d]
    /\ \E p \in Ptrs :
          ~CycleBound(p) /\ Deps(p) # {} /\ invoked[p] > 0 /\ executed[p]

\* C14: a GraphStage's executed flag, once true, stays true: through the
\* steps of Execute, through builder calls made after it returned, and
\* through a further Execute on the same graph
C14_Monotonic == [][\A p \in Ptrs : executed[p] => executed'[p]]_vars

\* a second Execute, after a builder call, found the flag of a stage that ran
\* in the first one still set and returned without invoking its handler
C14_Witness ==
    /\ runs = 2
    /\ built > 0
    /\ Done
    /\ \E p \in Ptrs :
          executed[p] /\ Passes(p) /\ invoked[p] = 0 /\ TasksOf(p) # {}

\* C15: in one run of Execute the executed flag of each stage is written at
\* most once
C15_WrittenOnce == \A p \in Ptrs : written[p] <= 1

\* C16: an error returned by Execute names a stage of the graph that is not
\* optional and was not skipped, and that failed in this run: either its
\* handler returned the error given as the cause, or an executeStage for it
\* found the required command given as the cause missing
C16_ErrorOrigin ==
    (Done /\ exec.ret # Nil) =>
        \E p \in Ptrs :
            /\ g.heap[p].name = exec.ret.stage
            /\ ~g.heap[p].optional
            /\ ~PlatformMismatch(p)
            /\ ~UnlessTrue(p)
            /\ \E t \in TasksOf(p) : tasks[t].ret = exec.ret
            /\ \/ /\ exec.ret.kind = "failed"
                  /\ p \in errored
                  /\ invoked[p] > 0
                  /\ exec.ret.cause = HandlerErr
               \/ /\ exec.ret.kind = "requires"
                  /\ invoked[p] = 0
                  /\ \E i \in DOMAIN g.heap[p].requires :
                        /\ g.heap[p].requires[i] = exec.ret.cause
                        /\ ~LookPath(req, exec.ret.cause)

\* Execute returned the error of a failed handler in a run in which the
\* handler of an optional stage returned an error too
C16_Witness ==
    /\ Done
    /\ exec.ret.kind = "failed"
    /\ \E p \in errored : g.heap[p].optional

\* the managers registered for an operating system, in priority order
RegisteredFor(os) ==
    IF os = "darwin" THEN << "homebrew" >>
    ELSE IF os = "linux" THEN << "yay", "pacman" >>
    ELSE << >>

\* C17: NewManager(os) returns the first manager registered for os, in
\* priority order, whose Available() is true, and Noop when os has none
\* registered or none is available; Noop.Install always returns the
\* not-supported error, Noop.IsInstalled and Noop.Available return false
C17_FirstAvailable ==
    /\ pm.call = "NewManager" =>
          LET rs == RegisteredFor(pm.os)
          IN  /\ pm.ret = "noop" <=>
                    \A i \in DOMAIN rs : ~pm.avail[rs[i]]
              /\ pm.ret # "noop" =>
                    \E i \in DOMAIN rs :
                        /\ pm.ret = rs[i]
                        /\ pm.avail[rs[i]]
                        /\ \A j \in 1 .. i - 1 : ~pm.avail[rs[j]]
    /\ pm.recv = "noop" =>
          /\ pm.call = "Install" => pm.ret = NotSupported /\ pm.cmd = << >>
          /\ pm.call = "IsInstalled" => pm.ret = FALSE
          /\ pm.call = "Available" => pm.ret = FALSE

\* on linux with yay not available and pacman available NewManager returned
\* the second manager of the list
C17_Witness ==
    /\ pm.call = "NewManager"
    /\ pm.os = "linux"
    /\ ~pm.avail["yay"]
    /\ pm.ret = "pacman"

\* C18 as claimed: Install with no package names returns nil and runs no
\* command, for Homebrew, Yay and Noop
C18_EmptyInstallNil ==
    (pm.call = "Install" /\ pm.args = << >>) =>
        pm.ret = "" /\ pm.cmd = << >>

\* C18: Install with no package names runs no command; Homebrew and Yay
\* return nil whether or not their tool is found, Noop returns its
\* not-supported error
C18_EmptyInstall ==
    (pm.call = "Install" /\ pm.args = << >>) =>
        /\ pm.cmd = << >>
        /\ pm.recv \in { "homebrew", "yay" } => pm.ret = ""
        /\ pm.recv = "noop" => pm.ret = NotSupported

\* Homebrew.Install was called with no package names on a machine without brew
C18_Witness ==
    /\ pm.call = "Install"
    /\ pm.args = << >>
    /\ pm.recv = "homebrew"
    /\ "brew" \notin pm.path

C20_UniqueLogs ==
    \A i, j \in DOMAIN ex.results :
        LET a == ex.results[i]
            b == ex.results[j]
        IN  (i # j /\ a.res.LogFile # NoLogFile /\ b.res.LogFile # NoLogFile)
                => /\ a.res.LogFile # b.res.LogFile
                   /\ ex.files[a.res.LogFile]
                        = LogContent(a.name, a.args, a.err)

\* the value of the i-th argument of the call
ArgTrue(i) == Eval(condCall.args[i], Request(condCall.os))

\* C21: And is true iff every argument is true (true for none), Or is true
\* iff some argument is true (false for none), Not is the negation of its
\* argument; And and Or call their arguments from left to right, an argument
\* being called iff no earlier one decided: none was false for And, none was
\* true for Or
C21_ShortCircuit ==
    condCall.called =>
        /\ condCall.op = "And" =>
              /\ condCall.val <=> \A i \in DOMAIN condCall.args : ArgTrue(i)
              /\ \A i \in DOMAIN condCall.args :
                    i \in DOMAIN condCall.seen
                        <=> \A k \in 1 .. i - 1 : ArgTrue(k)
        /\ condCall.op = "Or" =>
              /\ condCall.val <=> \E i \in DOMAIN condCall.args : ArgTrue(i)
              /\ \A i \in DOMAIN condCall.args :
                    i \in DOMAIN condCall.seen
                        <=> \A k \in 1 .. i - 1 : ~ArgTrue(k)
        /\ condCall.op = "Not" => (condCall.val <=> ~ArgTrue(1))
        /\ \A i \in DOMAIN condCall.seen : condCall.seen[i] = condCall.args[i]
        /\ Len(condCall.seen) <= Len(condCall.args)

\* And of three conditions answered false after calling two of them
C21_Witness ==
    /\ condCall.called
    /\ condCall.op = "And"
    /\ Len(condCall.args) = 3
    /\ Len(condCall.seen) = 2
    /\ ~condCall.val

\* stage p has dependencies and the executed flag of each of them is set
DependenciesExecuted(p) ==
    /\ p \in Ptrs
    /\ p \in Registered(g)
    /\ Deps(p) # {}
    /\ \A d \in Deps(p) : executed[d]

\* C22: in an acyclic graph, once every dependency of a stage is executed
\* (it ran, was skipped, or failed while optional), executeStage is
\* eventually called for the stage
C22_EventuallyAttempted ==
    \A p \in 1 .. 5 :
        (DependenciesExecuted(p) /\ ~CycleBound(p)) ~> (TasksOf(p) # {})

\* C23: Execute returns one error, the first that arrived on its error
\* channel, and so does every executeStage that waited for dependents; the
\* error returned is that of a stage that failed in the run, whichever of
\* the failed stages sent first
C23_FirstWins ==
    /\ Done =>
          /\ exec.errChan # << >> => exec.ret = exec.errChan[1]
          /\ exec.errChan = << >> => exec.ret = Nil
          /\ failed # {} => \E f \in failed : f.err = exec.ret
    /\ \A t \in DOMAIN tasks :
          (tasks[t].pc = "done" /\ tasks[t].errChan # << >>)
              => tasks[t].ret = tasks[t].errChan[1]

\* two root goroutines whose handlers were invoked are both able to send the
\* first error to Execute: either stage's error can be the one returned
C23_Witness ==
    /\ exec.errChan = << >>
    /\ \E t, u \in DOMAIN tasks :
          /\ t # u
          /\ Len(t) = 1
          /\ Len(u) = 1
          /\ ENABLED (Run(t) /\ Len(exec'.errChan) = 1)
          /\ ENABLED (Run(u) /\ Len(exec'.errChan) = 1)

\* the checks of one gate that executeStage made for stage p
ChecksOf(p, gate) == { c.i : c \in { k \in checks[p] : k.gate = gate } }

\* C24: executeStage compares the platform first, then evaluates the unless
\* conditions in order up to the first true one, then looks the required
\* commands up in order up to the first missing one, then calls the handler:
\* a stage of another platform has no condition evaluated and no command
\* looked up, a stage with a true unless condition has no command looked up,
\* neither of them yields a missing-requirement error, and a handler is
\* invoked only after every check was made and passed
C24_GateOrder ==
    \A p \in Ptrs :
        LET s == g.heap[p]
        IN  /\ PlatformMismatch(p) =>
                  ChecksOf(p, "unless") = {} /\ ChecksOf(p, "requires") = {}
            /\ UnlessTrue(p) => ChecksOf(p, "requires") = {}
            /\ \A i \in ChecksOf(p, "unless") :
                  \A k \in 1 .. i - 1 : ~Eval(s.unless[k], req)
            /\ \A i \in ChecksOf(p, "requires") :
                  \A k \in 1 .. i - 1 : LookPath(req, s.requires[k])
            /\ (PlatformMismatch(p) \/ UnlessTrue(p)) =>
                  /\ p \notin FailedStages
                  /\ \A t \in TasksOf(p) : tasks[t].ret.kind # "requires"
                  /\ exec.ret.kind = "requires" => exec.ret.stage # s.name
            /\ invoked[p] > 0 =>
                  /\ Passes(p)
                  /\ ChecksOf(p, "platform") = { 0 }
                  /\ ChecksOf(p, "unless") = DOMAIN s.unless
                  /\ ChecksOf(p, "requires") = DOMAIN s.requires

\* executeStage returned for a stage that is not optional, whose first unless
\* condition is true and which requires a missing command, having evaluated
\* that condition only
C24_Witness ==
    \E p \in Ptrs :
        /\ ~g.heap[p].optional
        /\ MissingCommand(p)
        /\ Len(g.heap[p].unless) = 2
        /\ ChecksOf(p, "unless") = { 1 }
        /\ ChecksOf(p, "platform") = { 0 }
        /\ \E t \in TasksOf(p) : tasks[t].pc = "done"

\* C25: once the executed flag of a stage is set no invocation of its handler
\* begins, and once executeStage has returned an error of the stage's own
\* (its handler or a required command failed) no goroutine enters
\* executeStage for that stage again in the run
C25_NoReentry ==
    [][/\ \A p \in Ptrs : executed[p] => invoked'[p] = invoked[p]
       /\ \A t \in DOMAIN tasks :
             (StageOf(t) \in FailedStages /\ tasks[t].pc = "start")
                 => tasks'[t].pc = "start"]_vars

\* the stage locks goroutine t holds
LocksHeld(t) == { p \in Ptrs : mu[p] = t }

\* goroutine t is between a Lock and the Unlock that follows it
InCriticalSection(t) == tasks[t].pc \in { "guard", "skipset", "set", "metread" }

\* C26: a goroutine holds at most one stage lock, and only between a Lock
\* and the Unlock that follows it: it holds none while its handler runs,
\* while it waits for a lock or for its dependents, and when the platform,
\* unless and requires checks have been made; the holder of a lock can
\* always go on to release it, so no goroutine waits for a lock for ever
C26_LockDiscipline ==
    /\ [](\A t \in DOMAIN tasks :
            /\ Cardinality(LocksHeld(t)) <= 1
            /\ ~InCriticalSection(t) => LocksHeld(t) = {}
            /\ InCriticalSection(t) =>
                  /\ LocksHeld(t) # {}
                  /\ ENABLED (\/ Guard(t)
                              \/ Skip(t)
                              \/ SetExecuted(t)
                              \/ ReadDependency(t)))
    /\ [][\A p \in Ptrs :
            (checks'[p] # checks[p] \/ invoked'[p] # invoked[p])
                => mu'[p] = NoTask]_vars

\* a handler is running while another goroutine, reading the executed flag
\* in allDependenciesMet, holds the lock of the stage it runs for
C26_Witness ==
    \E t, u \in DOMAIN tasks :
        /\ t # u
        /\ tasks[t].pc = "run"
        /\ mu[StageOf(t)] = u
        /\ tasks[u].pc = "metread"

\* the goroutines that the executeStage of goroutine t launched
Children(t) == { c \in DOMAIN tasks : Len(c) > 1 /\ Parent(c) = t }

\* C27: executeStage returns only when every goroutine it launched for a
\* dependent has returned; what it returns is then the first error those
\* goroutines sent it, nil when they sent none
C27_WaitsForOwn ==
    \A t \in DOMAIN tasks :
        (tasks[t].pc = "done" /\ Children(t) # {}) =>
            /\ \A c \in Children(t) : tasks[c].pc = "done"
            /\ tasks[t].wg = 0
            /\ { tasks[t].errChan[i] : i \in DOMAIN tasks[t].errChan }
                 = { tasks[c].ret : c \in Children(t) } \ { Nil }
            /\ tasks[t].ret = IF tasks[t].errChan = << >> THEN Nil
                              ELSE tasks[t].errChan[1]

\* executeStage returned after the goroutine it launched for a dependent,
\* while a goroutine that another stage launched for the same dependent has
\* not returned
C27_Witness ==
    \E t, u \in DOMAIN tasks :
        /\ tasks[t].pc = "done"
        /\ \E c \in Children(t) : StageOf(c) = StageOf(u)
        /\ u \notin Children(t)
        /\ tasks[u].pc # "done"

\* C28: a registration under a name that is registered already (AddStage of
\* the graph, of a PlatformBuilder or of a MergeBuilder, or AddMerge) makes
\* the new stage and maps the name to it, in place of the stage the name was
\* mapped to: the other names keep their stages, len(g.stages) stays as it
\* was, and the stage registered before is no longer in g.stages
C28_Overwrite ==
    [][Len(g'.heap) = Len(g.heap) + 1 =>
         LET n == g'.heap[NewPtr(g)].name
         IN  /\ g'.stages[n] = NewPtr(g)
             /\ SubSeq(g'.heap, 1, Len(g.heap)) = g.heap
             /\ \A m \in DOMAIN g.stages \ { n } : g'.stages[m] = g.stages[m]
             /\ DOMAIN g'.stages = DOMAIN g.stages \cup { n }
             /\ n \in DOMAIN g.stages =>
                   /\ Cardinality(DOMAIN g'.stages)
                        = Cardinality(DOMAIN g.stages)
                   /\ Registered(g')
                        = (Registered(g) \ { g.stages[n] }) \cup { NewPtr(g) }]_vars

\* each of the four ways of registering was used under a name registered
\* before: a stage of a platform, a merge stage and a stage after a merge
\* are in the graph, and two stages made earlier are no longer in g.stages
C28_Witness ==
    /\ Cardinality(Ptrs \ Registered(g)) = 2
    /\ \E p \in Ptrs : g.heap[p].platform # ""
    /\ \E p \in Ptrs : g.heap[p].run = NoopRun
    /\ \E p \in Ptrs :
          /\ g.heap[p].run = UserRun
          /\ g.heap[p].dependencies # << >>

RootsExecutedBefore ==
    \A t \in DOMAIN tasks :
        Len(t) = 1 => executed[StageOf(t)] /\ written[StageOf(t)] = 0

\* C30: Execute does not reset the executed flags.  An Execute called again
\* on a graph whose roots are all executed returns from every root at the
\* guard: no handler is invoked, no platform, unless or requires check is
\* made, no goroutine is launched for a dependent, no executed flag is
\* written, and Execute returns nil
C30_SecondRunIdle ==
    (runs >= 2 /\ RootsExecutedBefore) =>
        /\ \A p \in Ptrs :
              invoked[p] = 0 /\ checks[p] = {} /\ written[p] = 0
        /\ \A t \in DOMAIN tasks : Len(t) = 1
        /\ failed = {}
        /\ Done => exec.ret = Nil

\* the second Execute has returned, having found its root executed, on a
\* graph with a stage that no run has executed
C30_Witness ==
    /\ runs = 2
    /\ Done
    /\ tasks # << >>
    /\ RootsExecutedBefore
    /\ \E p \in Ptrs : ~executed[p]

\* C31: no step of Execute or executeStage changes the graph (the map of
\* stages, and of every GraphStage the name, handler, dependencies,
\* platform, required commands, unless conditions and optional mark, and
\* the platform of the graph) or any field of the request; of a GraphStage
\* only the executed flag is written, and it is only ever set
C31_Frame ==
    [][/\ g' = g
       /\ req' = req
       /\ \A p \in Ptrs : executed[p] => executed'[p]]_vars

\* Execute has returned after a run in which one stage was run and another
\* skipped, both being marked executed
C31_Witness ==
    /\ Done
    /\ \E p, q \in Ptrs :
          /\ written[p] > 0 /\ invoked[p] > 0
          /\ written[q] > 0 /\ invoked[q] = 0

\* no stage of the graph is on a dependency cycle, every stage passes its
\* platform, unless and requires checks, and no handler of a stage that is
\* not optional has returned an error
NothingStops ==
    /\ \A p \in Ptrs : ~OnCycle(p) /\ Passes(p)
    /\ ~HandlerFailure

\* C32: on an acyclic graph where no stage is skipped and no handler of a
\* non-optional stage fails, when Execute returns the handler of every stage
\* has been invoked and every executed flag is set, whatever the order in
\* which the dependencies of a stage completed: the one that sets its flag
\* last finds the others set
C32_NoLostWakeup ==
    (Done /\ NothingStops) =>
        \A p \in Registered(g) : invoked[p] >= 1 /\ executed[p]

\* Execute has returned on such a graph, a stage with two dependencies
\* having been launched by one of them only: the other completed first and
\* did not find the dependencies met
C32_Witness ==
    /\ Done
    /\ NothingStops
    /\ \E p \in Ptrs :
          /\ Cardinality(Deps(p)) = 2
          /\ Cardinality(TasksOf(p)) = 1
          /\ invoked[p] = 1
          /\ executed[p]

\* the name of stage p was registered again: g.stages maps it to a stage
\* made later
Overwritten(p) == g.stages[g.heap[p].name] # p

\* C33: a stage whose name was registered again is out of the scheduler's
\* reach: Execute does not take it for a root, findDependents does not find
\* it, no goroutine runs executeStage for it, its handler is not invoked and
\* its executed flag stays false; a stage with such a stage among its
\* dependencies is never launched either; and Execute returns nil when no
\* handler and no requirement of the stages it did run failed
C33_ShadowedUnreachable ==
    /\ \A p \in Ptrs :
          Overwritten(p) =>
              /\ p \notin Roots(g)
              /\ \A q \in Ptrs : p \notin findDependents(g, q)
              /\ TasksOf(p) = {}
              /\ invoked[p] = 0 /\ checks[p] = {} /\ ~executed[p]
    /\ \A p \in Ptrs :
          (\E d \in Deps(p) : Overwritten(d)) =>
              TasksOf(p) = {} /\ invoked[p] = 0 /\ ~executed[p]
    /\ (Done /\ ~HandlerFailure /\ ~RequirementFailure) => exec.ret = Nil

\* Execute has returned nil: the stage registered in place of another has
\* run, the overwritten stage has not, and a stage that depends on the
\* overwritten one was not launched although it has no other dependency
C33_Witness ==
    /\ Done
    /\ exec.ret = Nil
    /\ \E p, q, s \in Ptrs :
          /\ Overwritten(p)
          /\ g.stages[g.heap[p].name] = q
          /\ invoked[q] = 1 /\ executed[q]
          /\ Deps(s) = { p }
          /\ TasksOf(s) = {}

\* a step of Execute or executeStage of the Graph type told by generic
SchedulerStep(generic) ==
    \/ Execute
    \/ ExecuteReturn
    \/ \E t \in DOMAIN tasks :
          \/ LockGuard(t)
          \/ GuardAs(t, generic)
          \/ LockSkip(t)
          \/ Skip(t)
          \/ Run(t)
          \/ LockExecuted(t)
          \/ SetExecuted(t)
          \/ LockDependency(t)
          \/ ReadDependency(t)
          \/ Wait(t)

\* stage p is not optional and comes to the check of its required commands
\* with one that does not resolve
HardMissing(p) ==
    /\ ~g.heap[p].optional
    /\ ~PlatformMismatch(p)
    /\ ~UnlessTrue(p)
    /\ MissingCommand(p)

\* the step is the check of the required commands of such a stage
RequiresStep ==
    \E t \in DOMAIN tasks :
        /\ tasks[t].pc = "guard"
        /\ tasks'[t].pc # "guard"
        /\ ~executed[StageOf(t)]
        /\ HardMissing(StageOf(t))

\* C34: the scheduler of Graph[T] and the scheduler of the Graph without
\* type parameter take the same steps from the same state, except at the
\* check of the required commands of a stage that is not optional and
\* misses one: there Graph[T] returns the requirement error and leaves the
\* stage not executed, the other goes on to mark it executed and return
\* nil; so on a graph with no such stage the two have the same runs, and
\* the scheduler without type parameter never returns a requirement error
C34_SameButRequires ==
    /\ [][~RequiresStep => SchedulerStep(TRUE) /\ SchedulerStep(FALSE)]_vars
    /\ [][RequiresStep =>
            \E t \in DOMAIN tasks :
                /\ tasks[t].pc = "guard"
                /\ invoked' = invoked
                /\ IF g.generic
                     THEN /\ tasks'[t].pc = "done"
                          /\ tasks'[t].ret.kind = "requires"
                     ELSE /\ tasks'[t].pc = "skip"
                          /\ failed' = failed]_vars
    /\ [](~g.generic =>
            /\ \A f \in failed : f.err.kind # "requires"
            /\ exec.ret.kind # "requires"
            /\ \A p \in Ptrs :
                  (HardMissing(p) /\ \E t \in TasksOf(p) : tasks[t].pc = "done")
                      => executed[p] /\ invoked[p] = 0)

\* Execute of the Graph without type parameter has returned nil, a stage
\* that is not optional and misses a required command being marked executed
\* without its handler invoked
C34_Witness ==
    /\ ~g.generic
    /\ Done
    /\ exec.ret = Nil
    /\ \E p \in Ptrs :
          /\ HardMissing(p)
          /\ executed[p]
          /\ written[p] = 1
          /\ invoked[p] = 0
====
